---- MODULE Spec2Model ----
(***************************************************************************)
(* RouterGeolocator (src/geolocate_routers.py): the reverse-DNS hint       *)
(* extractor, the confidence scorer, lookup_ip and the batch               *)
(* process_ip_list with save_to_csv and print_summary.                     *)
(*                                                                         *)
(* Python's None is the empty tuple NONE and a value v that is present is  *)
(* the one-element tuple Some(v), so that None never equals a value.  A    *)
(* string the code matches with a regular expression (a hostname, a region *)
(* code) is a sequence of one-character strings.                           *)
(***************************************************************************)
EXTENDS Integers, Sequences, FiniteSets, TLC

VARIABLES ip_list, i, results, answers, csv_file, summary, exc, pc, result, before

vars == <<ip_list, i, results, answers, csv_file, summary, exc, pc, result, before>>

NONE == <<>>
Some(v) == <<v>>

\* ---------------------------------------------------------------- bounds
\* Longest hostname handed to the hint extractor on its own.
MaxLen == 5
\* Longest IP list handed to process_ip_list.
MaxIps == 2

\* ------------------------------------------------------------ characters
LowerCase == <<"a","b","c","d","e","f","g","h","i","j","k","l","m",
               "n","o","p","q","r","s","t","u","v","w","x","y","z">>
UpperCase == <<"A","B","C","D","E","F","G","H","I","J","K","L","M",
               "N","O","P","Q","R","S","T","U","V","W","X","Y","Z">>
Digits == {"0","1","2","3","4","5","6","7","8","9"}
Letters == {LowerCase[k] : k \in 1..26} \cup {UpperCase[k] : k \in 1..26}

\* str.lower() on the upper-case letters
ToLower == [c \in {UpperCase[k] : k \in 1..26} |->
               LowerCase[CHOOSE k \in 1..26 : UpperCase[k] = c]]

\* str.lower() on one character
LowerChar(c) == IF c \in DOMAIN ToLower THEN ToLower[c] ELSE c

\* hostname.lower()
Lower(s) == [k \in 1..Len(s) |-> LowerChar(s[k])]

\* the regular expression class \w
WordChars == Letters \cup Digits \cup {"_"}
IsWordChar(c) == c \in WordChars
\* the regular expression class [-_.]
IsDelimiter(c) == c \in {"-", "_", "."}
\* the regular expression class \d
IsDigit(c) == c \in Digits

\* ------------------------------------------------------ region code table
\* self.taiwan_codes, in the dict's insertion order
taiwan_codes == <<
    [code |-> <<"t","p","e">>,     city |-> "Taipei"],
    [code |-> <<"t","p","q">>,     city |-> "Taipei"],
    [code |-> <<"n","t","c">>,     city |-> "New Taipei"],
    [code |-> <<"n","t","p","c">>, city |-> "New Taipei"],
    [code |-> <<"t","y","n">>,     city |-> "Taoyuan"],
    [code |-> <<"t","y">>,         city |-> "Taoyuan"],
    [code |-> <<"t","c","n">>,     city |-> "Taichung"],
    [code |-> <<"t","c">>,         city |-> "Taichung"],
    [code |-> <<"t","x","g">>,     city |-> "Taichung"],
    [code |-> <<"t","n","n">>,     city |-> "Tainan"],
    [code |-> <<"t","n">>,         city |-> "Tainan"],
    [code |-> <<"k","h","h">>,     city |-> "Kaohsiung"],
    [code |-> <<"k","h">>,         city |-> "Kaohsiung"],
    [code |-> <<"h","s","c">>,     city |-> "Hsinchu"],
    [code |-> <<"h","c">>,         city |-> "Hsinchu"],
    [code |-> <<"h","c","h">>,     city |-> "Hsinchu"],
    [code |-> <<"h","l">>,         city |-> "Hualien"],
    [code |-> <<"i","l">>,         city |-> "Yilan"],
    [code |-> <<"t","t">>,         city |-> "Taitung"],
    [code |-> <<"n","t">>,         city |-> "Nantou"],
    [code |-> <<"c","y">>,         city |-> "Chiayi"],
    [code |-> <<"m","l">>,         city |-> "Miaoli"],
    [code |-> <<"c","l">>,         city |-> "Changhua"],
    [code |-> <<"y","l">>,         city |-> "Yunlin"],
    [code |-> <<"p","t">>,         city |-> "Pingtung"] >>

\* ----------------------------------------------------- the regex pattern
\* the literal text of code occurs in s starting at position p
MatchAt(code, s, p) ==
    /\ p >= 1
    /\ p + Len(code) - 1 <= Len(s)
    /\ \A j \in 1..Len(code) : s[p + j - 1] = code[j]

\* position p of s holds a \w character (FALSE outside the string)
WordAt(s, p) == p \in 1..Len(s) /\ IsWordChar(s[p])

\* \b just before position p: exactly one side is a \w character
WordBoundary(s, p) == WordAt(s, p - 1) # WordAt(s, p)

\* \b{code}\b
WholeWord(code, s, p) ==
    /\ MatchAt(code, s, p)
    /\ WordBoundary(s, p)
    /\ WordBoundary(s, p + Len(code))

\* [-_.]{code}[-_.]
Delimited(code, s, p) ==
    /\ MatchAt(code, s, p)
    /\ p - 1 \in 1..Len(s) /\ IsDelimiter(s[p - 1])
    /\ p + Len(code) \in 1..Len(s) /\ IsDelimiter(s[p + Len(code)])

\* {code}\d
DigitSuffixed(code, s, p) ==
    /\ MatchAt(code, s, p)
    /\ p + Len(code) \in 1..Len(s) /\ IsDigit(s[p + Len(code)])

\* the code occurs at p under one of the pattern's three alternatives
PatternAt(code, s, p) ==
    \/ WholeWord(code, s, p)
    \/ Delimited(code, s, p)
    \/ DigitSuffixed(code, s, p)

\* re.search(pattern, s)
re_search(code, s) == \E p \in 1..Len(s) : PatternAt(code, s, p)

\* the for loop over taiwan_codes.items(), from entry k on
RECURSIVE ScanCodes(_, _)
ScanCodes(s, k) ==
    IF k > Len(taiwan_codes) THEN NONE
    ELSE IF re_search(taiwan_codes[k].code, s) THEN Some(taiwan_codes[k].city)
    ELSE ScanCodes(s, k + 1)

\* a slip: the hostname is matched without lowering it first
extract_no_lower(hostname) == ScanCodes(hostname, 1)

extract_location_from_hostname(hostname) == ScanCodes(Lower(hostname), 1)


\* ------------------------------------------------------ confidence scorer
\* Python truthiness of an optional number: None and 0 are false
TruthyNum(v) == v # NONE /\ v[1] # 0
\* Python truthiness of an optional str: None and '' are false
TruthyStr(v) == v # NONE /\ v[1] # ""
\* Python truthiness of an optional hostname: None and the empty one are false
TruthyHost(v) == v # NONE /\ v[1] # <<>>

\* if result['latitude'] and result['longitude']: score += 2
coordinate_points(r) ==
    IF TruthyNum(r.latitude) /\ TruthyNum(r.longitude) THEN 2 ELSE 0
\* if result['city']: score += 2
city_points(r) == IF TruthyStr(r.city) THEN 2 ELSE 0
\* if result['hostname']: score += 1
hostname_points(r) == IF TruthyHost(r.hostname) THEN 1 ELSE 0

\* if result['dns_hints']: score += 2
hint_points(r) == IF TruthyStr(r.dns_hints) THEN 2 ELSE 0
\* if result['accuracy_radius'] and result['accuracy_radius'] < 50: score += 1
radius_points(r) ==
    IF TruthyNum(r.accuracy_radius) /\ r.accuracy_radius[1] < 50 THEN 1 ELSE 0

score(r) ==
    coordinate_points(r) + city_points(r) + hostname_points(r)
        + hint_points(r) + radius_points(r)

\* a slip: the middle band spelled as an equality, so a score of 5 falls through
level_of_score_eq(s) ==
    IF s >= 6 THEN "high"
    ELSE IF s = 4 THEN "medium"
    ELSE IF s >= 2 THEN "low"
    ELSE "none"

\* the if/elif chain on the total score
level_of_score(s) ==
    IF s >= 6 THEN "high"
    ELSE IF s >= 4 THEN "medium"
    ELSE IF s >= 2 THEN "low"
    ELSE "none"

calculate_confidence(r) == level_of_score(score(r))

\* ---------------------------------------------------------------- lookup
\* the result dict as lookup_ip creates it; error = NONE is the key not set
NewResult(ip) ==
    [ip |-> ip, country |-> NONE, city |-> NONE, latitude |-> NONE,
     longitude |-> NONE, accuracy_radius |-> NONE, postal_code |-> NONE,
     subdivision |-> NONE, isp |-> NONE, hostname |-> NONE,
     dns_hints |-> NONE, confidence |-> NONE, error |-> NONE]

NotFoundMessage == "IP not found in database"

\* what self.reader.city(ip) can answer: a record, AddressNotFoundError, or
\* any other exception (msg is its str())
DbResponses == {
    [country |-> Some("Taiwan"), city |-> Some("Taipei"), latitude |-> Some(25),
     longitude |-> Some(121), accuracy_radius |-> Some(20),
     postal_code |-> Some("100"), subdivisions |-> <<"Taipei City">>],
    [country |-> Some("Taiwan"), city |-> NONE, latitude |-> Some(24),
     longitude |-> Some(121), accuracy_radius |-> Some(200),
     postal_code |-> NONE, subdivisions |-> <<>>],
    [country |-> Some("Japan"), city |-> Some("Tokyo"), latitude |-> Some(35),
     longitude |-> Some(139), accuracy_radius |-> Some(50),
     postal_code |-> NONE, subdivisions |-> <<"Kanto", "Tokyo">>] }

NoResponse ==
    [country |-> NONE, city |-> NONE, latitude |-> NONE, longitude |-> NONE,
     accuracy_radius |-> NONE, postal_code |-> NONE, subdivisions |-> <<>>]

DbAnswers ==
    {[kind |-> "found", response |-> resp, msg |-> ""] : resp \in DbResponses}
    \cup {[kind |-> "AddressNotFoundError", response |-> NoResponse, msg |-> ""],
          [kind |-> "Exception", response |-> NoResponse,
           msg |-> "corrupt database"]}

\* what socket.gethostbyaddr(ip) can answer: a hostname, herror (host
\* unknown, resolver timeout) or gaierror (resolver unavailable)
DnsHostnames == {
    <<"t","p","e","-","c","o","r","e","1",".","e","x","a","m","p","l","e",".","t","w">>,
    <<"T","N",".","t","c",".","n","e","t">>,
    <<"g","w",".","e","x","a","m","p","l","e",".","n","e","t">> }

DnsAnswers ==
    {[kind |-> "resolved", hostname |-> h] : h \in DnsHostnames}
    \cup {[kind |-> "herror", hostname |-> <<>>],
          [kind |-> "gaierror", hostname |-> <<>>]}

\* a slip: the catch-all except clause is missing
db_caught_only_not_found(kind) == kind \in {"AddressNotFoundError"}

\* the except clauses of the database try block
db_caught(kind) == kind \in {"AddressNotFoundError", "Exception"}

\* the except clause of the reverse-DNS try block
dns_caught(kind) == kind \in {"herror", "gaierror"}

\* the exception that leaves lookup_ip, NONE when it returns
lookup_escapes(db, dns) ==
    IF db.kind # "found" /\ ~db_caught(db.kind) THEN Some(db.kind)
    ELSE IF dns.kind # "resolved" /\ ~dns_caught(dns.kind) THEN Some(dns.kind)
    ELSE NONE

\* response.subdivisions.most_specific.name, taken only if there are any
most_specific(subdivisions) ==
    IF subdivisions = <<>> THEN NONE
    ELSE Some(subdivisions[Len(subdivisions)])

\* the database try block
AfterDatabase(r, db) ==
    IF db.kind = "found"
    THEN [r EXCEPT !.country = db.response.country,
                   !.city = db.response.city,
                   !.latitude = db.response.latitude,
                   !.longitude = db.response.longitude,
                   !.accuracy_radius = db.response.accuracy_radius,
                   !.postal_code = db.response.postal_code,
                   !.subdivision = most_specific(db.response.subdivisions)]
    ELSE IF db.kind = "AddressNotFoundError"
    THEN [r EXCEPT !.error = Some(NotFoundMessage)]
    ELSE [r EXCEPT !.error = Some(db.msg)]

\* a slip: the reverse lookup is attempted only for an IP the database knows
AfterDnsOnlyIfFound(r, dns) ==
    IF dns.kind = "resolved" /\ r.error = NONE
    THEN [r EXCEPT !.hostname = Some(dns.hostname),
                   !.dns_hints = extract_location_from_hostname(dns.hostname)]
    ELSE r

\* the reverse-DNS try block
AfterDns(r, dns) ==
    IF dns.kind = "resolved"
    THEN [r EXCEPT !.hostname = Some(dns.hostname),
                   !.dns_hints = extract_location_from_hostname(dns.hostname)]
    ELSE r

\* result['confidence'] = self.calculate_confidence(result)
Scored(r) == [r EXCEPT !.confidence = Some(calculate_confidence(r))]

lookup_ip(ip, db, dns) == Scored(AfterDns(AfterDatabase(NewResult(ip), db), dns))


\* ----------------------------------------------------------------- report
fieldnames == <<"ip", "country", "city", "subdivision", "latitude", "longitude",
                "accuracy_radius", "postal_code", "hostname", "dns_hints",
                "confidence", "error">>

\* csv.DictWriter writes None, and a key the row lacks, as the empty field
Cell(v) == IF v = NONE THEN "" ELSE v[1]

\* row = {k: v for k, v in result.items() if k in fieldnames}, as written
CsvRow(r) ==
    [k \in 1..Len(fieldnames) |->
        IF fieldnames[k] = "ip" THEN r.ip ELSE Cell(r[fieldnames[k]])]

\* a slip: only the rows the database located are written
save_to_csv_found_only(rs) ==
    IF rs = <<>> THEN NONE
    ELSE Some([header |-> fieldnames,
               rows |-> SelectSeq([k \in 1..Len(rs) |-> CsvRow(rs[k])],
                                  LAMBDA row : row[3] # "")])

\* the file save_to_csv leaves: NONE when it returns before opening it
save_to_csv(rs) ==
    IF rs = <<>> THEN NONE
    ELSE Some([header |-> fieldnames,
               rows |-> [k \in 1..Len(rs) |-> CsvRow(rs[k])]])

Levels == {"high", "medium", "low", "none"}

\* sum(1 for r in results if r.get(f)): the positions whose field f is truthy
CountTruthyStr(rs, f) == Cardinality({k \in 1..Len(rs) : TruthyStr(rs[k][f])})
CountTruthyHost(rs, f) == Cardinality({k \in 1..Len(rs) : TruthyHost(rs[k][f])})

\* sum(1 for r in results if r.get('confidence') == lvl)
CountConfidence(rs, lvl) ==
    Cardinality({k \in 1..Len(rs) : rs[k].confidence = lvl})

\* a slip: the 'none' bucket counts an unset confidence instead of 'none'
confidence_counts_unset(rs) ==
    [lvl \in Levels |->
        IF lvl = "none" THEN CountConfidence(rs, NONE)
        ELSE CountConfidence(rs, Some(lvl))]

\* the confidence_counts dict
confidence_counts(rs) == [lvl \in Levels |-> CountConfidence(rs, Some(lvl))]

\* city = r.get('city') or 'Unknown'
CityKey(r) == IF TruthyStr(r.city) THEN r.city[1] ELSE "Unknown"

\* the cities dict built over taiwan_results (empty when there are none)
city_counts(rs) ==
    LET taiwan == {k \in 1..Len(rs) : rs[k].country = Some("Taiwan")}
    IN  [c \in {CityKey(rs[k]) : k \in taiwan} |->
            Cardinality({k \in taiwan : CityKey(rs[k]) = c})]

\* the counts print_summary computes; the percentages divide by total
print_summary(rs) ==
    [total |-> Len(rs),
     found |-> CountTruthyStr(rs, "city"),
     with_dns |-> CountTruthyHost(rs, "hostname"),
     with_hints |-> CountTruthyStr(rs, "dns_hints"),
     confidence_counts |-> confidence_counts(rs),
     cities |-> IF Len(rs) = 0 THEN <<>> ELSE city_counts(rs)]

\* ------------------------------------------------------------------ batch
IPs == {"1.2.3.4", "168.95.1.1"}

IpLists == UNION {[1..n -> IPs] : n \in 0..MaxIps}

Idle ==
    /\ ip_list = <<>> /\ i = 1 /\ results = <<>> /\ answers = <<>>
    /\ csv_file = NONE /\ summary = NONE /\ exc = NONE

\* process_ip_list is called with a list; nothing is looked up yet
Init ==
    /\ ip_list \in IpLists
    /\ i = 1
    /\ results = <<>>
    /\ answers = <<>>
    /\ csv_file = NONE
    /\ summary = NONE
    /\ exc = NONE
    /\ pc = "loop"
    /\ result = NONE
    /\ before = NONE

\* one turn of the for loop: lookup_ip on the next IP, the result appended
LookupStep ==
    /\ pc = "loop"
    /\ i <= Len(ip_list)
    /\ \E db \in DbAnswers, dns \in DnsAnswers :
         /\ answers' = Append(answers, [db |-> db, dns |-> dns])
         /\ IF lookup_escapes(db, dns) # NONE
            THEN /\ pc' = "raised"
                 /\ exc' = lookup_escapes(db, dns)
                 /\ UNCHANGED <<i, results>>
            ELSE /\ results' = Append(results, lookup_ip(ip_list[i], db, dns))
                 /\ i' = i + 1
                 /\ UNCHANGED <<pc, exc>>
    /\ UNCHANGED <<ip_list, csv_file, summary, result, before>>

\* after the loop: save_to_csv, print_summary, return results
Finish ==
    /\ pc = "loop"
    /\ i > Len(ip_list)
    /\ csv_file' = save_to_csv(results)
    /\ summary' = Some(print_summary(results))
    /\ IF Len(results) = 0
       THEN pc' = "raised" /\ exc' = Some("ZeroDivisionError")
       ELSE pc' = "done" /\ UNCHANGED exc
    /\ UNCHANGED <<ip_list, i, results, answers, result, before>>

Next == LookupStep \/ Finish

Spec == Init /\ [][Next]_vars

\* ------------------------------------------------------- scorer on its own
Radii == {0, 20, 49, 50, 200}

\* the values a signal of the result can be populated with
SignalValues(f) ==
    CASE f = "latitude" -> {0, 25}
      [] f = "longitude" -> {0, 121}
      [] f = "city" -> {"Taipei"}
      [] f = "hostname" -> {<<"g", "w">>}
      [] f = "dns_hints" -> {"Taipei"}
      [] f = "accuracy_radius" -> Radii

Signals == {"latitude", "longitude", "city", "hostname", "dns_hints",
            "accuracy_radius"}

Optional(S) == {NONE} \cup {Some(v) : v \in S}

ScoreInputs ==
    {[NewResult("1.2.3.4") EXCEPT !.latitude = lat, !.longitude = lon,
                                  !.city = c, !.hostname = h,
                                  !.dns_hints = d, !.accuracy_radius = a] :
        lat \in Optional(SignalValues("latitude")),
        lon \in Optional(SignalValues("longitude")),
        c \in Optional(SignalValues("city")),
        h \in Optional(SignalValues("hostname")),
        d \in Optional(SignalValues("dns_hints")),
        a \in Optional(SignalValues("accuracy_radius"))}

InitScore ==
    /\ Idle
    /\ pc = "start"
    /\ result \in ScoreInputs
    /\ before = NONE

\* calculate_confidence on the assembled result
ScoreResult ==
    /\ pc = "start"
    /\ result' = Scored(result)
    /\ pc' = "scored"
    /\ UNCHANGED <<ip_list, i, results, answers, csv_file, summary, exc, before>>

\* the same result with one absent signal present, scored again; before
\* keeps the result as it was scored without the signal
Populate ==
    /\ pc = "scored"
    /\ before' = Some(result)
    /\ \E f \in Signals :
         /\ result[f] = NONE
         /\ \E v \in SignalValues(f) :
              result' = Scored([result EXCEPT ![f] = Some(v)])
    /\ UNCHANGED <<ip_list, i, results, answers, csv_file, summary, exc, pc>>

NextScore == ScoreResult \/ Populate

SpecScore == InitScore /\ [][NextScore]_vars

\* ------------------------------------------------ hint extractor on its own
HostChars == {"t", "c", "n", "T", ".", "1"}

Hostnames == UNION {[1..n -> HostChars] : n \in 1..MaxLen}

InitHint ==
    /\ Idle
    /\ pc = "start"
    /\ \E h \in Hostnames : result = [NewResult("1.2.3.4") EXCEPT !.hostname = Some(h)]
    /\ before = NONE

\* result['dns_hints'] = self.extract_location_from_hostname(hostname)
ExtractHint ==
    /\ pc = "start"
    /\ result' = [result EXCEPT
                    !.dns_hints = extract_location_from_hostname(result.hostname[1])]
    /\ pc' = "extracted"
    /\ UNCHANGED <<ip_list, i, results, answers, csv_file, summary, exc, before>>

NextHint == ExtractHint

SpecHint == InitHint /\ [][NextHint]_vars


\* ================================================================ claims
Present(v) == v # NONE

\* a coordinate counts as present when the provider returned it and it is
\* not zero (the rubric's "non-null/non-zero-equivalent-absent")
PresentCoordinate(v) == v # NONE /\ v[1] # 0

\* the additive rubric over what is present
RubricPoints(r) ==
    (IF PresentCoordinate(r.latitude) /\ PresentCoordinate(r.longitude)
     THEN 2 ELSE 0)
    + (IF Present(r.city) THEN 2 ELSE 0)
    + (IF Present(r.hostname) THEN 1 ELSE 0)
    + (IF Present(r.dns_hints) THEN 2 ELSE 0)
    + (IF Present(r.accuracy_radius) /\ r.accuracy_radius[1] < 50 THEN 1 ELSE 0)

RubricLevel(p) ==
    CASE p >= 6 -> "high"
      [] p \in {4, 5} -> "medium"
      [] p \in {2, 3} -> "low"
      [] OTHER -> "none"

\* C1: for every combination of present and absent signals the scored level
\* is the rubric's: coordinates +2, city +2, hostname +1, hint +2, a radius
\* below 50 +1; 6 or more high, 4 or 5 medium, 2 or 3 low, else none.
C1_RubricLevel ==
    pc = "scored" => result.confidence = Some(RubricLevel(RubricPoints(result)))

Rank(lvl) ==
    CASE lvl = "none" -> 0 [] lvl = "low" -> 1 [] lvl = "medium" -> 2
      [] lvl = "high" -> 3

\* C2: making one absent signal present, every other field unchanged, never
\* lowers the confidence level in the order none < low < medium < high.
C2_Monotonic ==
    before # NONE =>
        Rank(result.confidence[1]) >= Rank(before[1].confidence[1])

\* C2 witness: a hostname was added to a result scored low and lifted it to medium
C2_Witness ==
    /\ before # NONE
    /\ before[1].hostname = NONE /\ result.hostname # NONE
    /\ before[1].confidence = Some("low")
    /\ result.confidence = Some("medium")

\* C3: the radius point is awarded for every returned radius from 0 up to,
\* not including, 50, and is not awarded for an absent radius or one of 50
\* or more.
C3_RadiusPoint ==
    pc = "scored" =>
        (radius_points(result) = 1
            <=> (result.accuracy_radius # NONE
                 /\ result.accuracy_radius[1] >= 0
                 /\ result.accuracy_radius[1] < 50))

\* C4: no failed lookup aborts the batch: every lookup answered, whatever the
\* database and the resolver answered, appended its result, and the loop is
\* left only when every IP of the list has one.
C4_BatchContinues ==
    /\ Len(results) = Len(answers)
    /\ pc # "loop" => Len(results) = Len(ip_list)
    /\ exc \in {NONE, Some("ZeroDivisionError")}

\* C4 witness: the first IP failed in the database and in the resolver, the
\* second missed the database and the resolver was unavailable, and the
\* batch returned
C4_Witness ==
    /\ pc = "done"
    /\ Len(results) = 2
    /\ answers[1].db.kind = "Exception" /\ answers[1].dns.kind = "herror"
    /\ answers[2].db.kind = "AddressNotFoundError"
    /\ answers[2].dns.kind = "gaierror"

\* the hostname the resolver answered holds a region code the pattern matches
YieldsHint(dns) ==
    /\ dns.kind = "resolved"
    /\ \E k \in 1..Len(taiwan_codes) :
         re_search(taiwan_codes[k].code, Lower(dns.hostname))

\* C5: an IP the database does not know gets the error 'IP not found in
\* database' and no geo field, the reverse lookup is still made, and the
\* confidence is low when the hostname yields a hint and none otherwise.
C5_NotFound ==
    \A k \in 1..Len(results) :
        answers[k].db.kind = "AddressNotFoundError" =>
            LET r == results[k]
                dns == answers[k].dns
            IN  /\ r.error = Some(NotFoundMessage)
                /\ \A f \in {"country", "city", "subdivision", "latitude",
                             "longitude", "accuracy_radius", "postal_code"} :
                       r[f] = NONE
                /\ r.hostname = IF dns.kind = "resolved"
                                THEN Some(dns.hostname) ELSE NONE
                /\ r.dns_hints # NONE <=> YieldsHint(dns)
                /\ r.confidence = Some(IF YieldsHint(dns) THEN "low" ELSE "none")

\* C5 witness: the database misses the IP, the resolver answers
\* tpe-core1.example.tw, and the result is Taipei at low confidence
C5_Witness ==
    \E k \in 1..Len(results) :
        /\ answers[k].db.kind = "AddressNotFoundError"
        /\ answers[k].dns.kind = "resolved"
        /\ results[k].hostname # NONE
        /\ results[k].dns_hints = Some("Taipei")
        /\ results[k].confidence = Some("low")
        /\ results[k].error = Some(NotFoundMessage)

\* the data rows of the file save_to_csv wrote (none when it wrote no file)
CsvDataRows == IF csv_file = NONE THEN <<>> ELSE csv_file[1].rows

\* C6: the results and the CSV data rows hold one entry per input IP, the
\* entry at each position carrying the IP at that position of the input,
\* whichever lookups failed.
C6_OrderPreserved ==
    /\ Len(results) <= Len(ip_list)
    /\ \A k \in 1..Len(results) : results[k].ip = ip_list[k]
    /\ pc # "loop" =>
         /\ Len(results) = Len(ip_list)
         /\ Len(CsvDataRows) = Len(ip_list)
         /\ \A k \in 1..Len(ip_list) : CsvDataRows[k][1] = ip_list[k]

\* C6 witness: two different IPs, the first failed and the second found, and
\* both rows written in the input's order
C6_Witness ==
    /\ pc = "done"
    /\ Len(ip_list) = 2 /\ ip_list[1] # ip_list[2]
    /\ results[1].error # NONE /\ results[2].error = NONE
    /\ Len(CsvDataRows) = 2
    /\ CsvDataRows[1][1] = ip_list[1] /\ CsvDataRows[2][1] = ip_list[2]

RECURSIVE SumOver(_, _)
SumOver(f, S) ==
    IF S = {} THEN 0
    ELSE LET x == CHOOSE y \in S : TRUE IN f[x] + SumOver(f, S \ {x})

\* C7: the summary counts are consistent: found is at most the total, the
\* four confidence counts sum to the total, and the Taiwan city counts
\* (no city counted under 'Unknown') sum to at most the total.
C7_SummaryConsistent ==
    summary # NONE =>
        LET s == summary[1]
        IN  /\ s.total = Len(results)
            /\ s.found <= s.total
            /\ DOMAIN s.confidence_counts = Levels
            /\ SumOver(s.confidence_counts, Levels) = s.total
            /\ SumOver(s.cities, DOMAIN s.cities) <= s.total
            /\ SumOver(s.cities, DOMAIN s.cities)
                 = Cardinality({k \in 1..Len(results) :
                                   results[k].country = Some("Taiwan")})

\* C7 witness: a batch of two, a Taiwan result without a city counted under
\* 'Unknown' and a result the database missed, of confidence none: the city
\* counts sum to less than the total
C7_Witness ==
    /\ summary # NONE
    /\ summary[1].total = 2
    /\ summary[1].found = 0
    /\ DOMAIN summary[1].cities = {"Unknown"}
    /\ summary[1].cities["Unknown"] = 1
    /\ summary[1].confidence_counts["none"] = 1
    /\ summary[1].confidence_counts["low"] = 1

\* C8: for every input list, the empty one included, process_ip_list
\* completes the summary pass without raising and returns, the summary
\* holding all four confidence levels.
C8_AlwaysCompletes ==
    pc # "loop" =>
        /\ pc = "done"
        /\ exc = NONE
        /\ summary # NONE
        /\ DOMAIN summary[1].confidence_counts = Levels

IsLetter(c) == c \in Letters

\* every occurrence of every region code in s has a letter right before it
OnlyInsideWords(s) ==
    \A k \in 1..Len(taiwan_codes), p \in 1..Len(s) :
        MatchAt(taiwan_codes[k].code, s, p) => (p > 1 /\ IsLetter(s[p - 1]))

\* C9: a hostname in which every occurrence of a region code has a letter
\* immediately before it yields no hint.
C9_NoMatchInsideWord ==
    (pc = "extracted" /\ OnlyInsideWords(Lower(result.hostname[1])))
        => result.dns_hints = NONE

\* the table positions of the codes the pattern matches in s
MatchingCodes(s) ==
    {k \in 1..Len(taiwan_codes) : re_search(taiwan_codes[k].code, s)}

\* C10: the hint is the city of the first code, in table order, that the
\* pattern matches in the lowered hostname, whatever the positions of the
\* matches in the hostname, and it is absent exactly when no code matches.
C10_FirstInTableOrder ==
    pc = "extracted" =>
        LET M == MatchingCodes(Lower(result.hostname[1]))
        IN  IF M = {} THEN result.dns_hints = NONE
            ELSE \E k \in M :
                   /\ \A j \in M : k <= j
                   /\ result.dns_hints = Some(taiwan_codes[k].city)

\* C10 witness: an upper-case hostname in which two codes of different
\* cities match and the one later in the table stands earlier in the
\* hostname; the hint is the city of the one earlier in the table
C10_Witness ==
    /\ pc = "extracted"
    /\ result.hostname[1] # Lower(result.hostname[1])
    /\ LET s == Lower(result.hostname[1])
       IN  \E k1, k2 \in MatchingCodes(s) :
             /\ k1 < k2
             /\ taiwan_codes[k1].city # taiwan_codes[k2].city
             /\ \E p2 \in 1..Len(s) :
                  /\ PatternAt(taiwan_codes[k2].code, s, p2)
                  /\ \A p1 \in 1..p2 : ~PatternAt(taiwan_codes[k1].code, s, p1)
             /\ result.dns_hints = Some(taiwan_codes[k1].city)

====
